---- MODULE Spec2Model ----
(***************************************************************************)
(* Device-to-device copy kernels of GpuMemcpy.cpp and their dispatch entry *)
(* points: scalarCopy<int>, scalarCopy<long long>, vectorCopy<int>,        *)
(* vectorCopy<long long> and memcpyFloat.                                  *)
(*                                                                         *)
(* Buffers are arrays of elements indexed from 0.  A wide word (int4_t,    *)
(* float4_t) is a view of vl consecutive elements of the same buffer.      *)
(* A thread is named by its global rank t: blockIdx_x = t \div blockDim_x, *)
(* threadIdx_x = t % blockDim_x.  A step of a thread is one memory         *)
(* transaction of its loop body (a copy, or the load phase or the store    *)
(* phase of the register-blocked kernel); the loop tests and increments    *)
(* on its private registers are taken together with the transaction that   *)
(* precedes them, so a thread whose first test already fails has no step.  *)
(***************************************************************************)
EXTENDS Integers, Sequences, FiniteSets, TLC

VARIABLES
  backend,     \* the backend this build was compiled for
  host,        \* the calling host thread: "idle", "returned" or "fatal"
  lastError,   \* the device's most recent error flag
  errChecked,  \* whether the entry point read the error flag after enqueuing
  entry,       \* the dispatch entry point of the current call, or "none"
  n,           \* its element count
  launch,      \* the launch it enqueued: kernel, kernel arguments, geometry
  data_in,     \* source buffer
  data_out,    \* destination buffer
  pre_out,     \* the destination as it was when the current call was made
  first_out,   \* the destination as the previous call of the scenario left it
  mode,        \* "first" call, the same call "again", or a call to "compare"
  pc,          \* per thread: where it stands in its kernel
  idx,         \* per thread: its loop index (i, or index)
  a,           \* per thread: the staging array a[numElem] of memcpyFloatKernel
  reads,       \* element indices of data_in read by the kernel so far
  writes,      \* element indices of data_out written by the kernel so far
  dups         \* element indices of data_out written more than once

vars == <<backend, host, lastError, errChecked, entry, n, launch, data_in,
          data_out, pre_out, first_out, mode, pc, idx, a, reads, writes, dups>>

-----------------------------------------------------------------------------
(* Program constants *)

numthread == 64
NUM_ELEM == 2

(* Bounds of the model *)

\* element counts 0..MaxN are tried with every entry point
MaxN == 5
\* elements allocated beyond the n the call is given
Pad == 2
\* every order of the threads is explored once this many are left
FreeOrder == 4
\* largest element count whose launch geometry is computed (host side only)
MaxHostN == 520
\* geometries <<< 1..MaxGrid, 1..MaxBlock >>> of the kernels launched directly
MaxGrid == 2
MaxBlock == 2
\* their counts n run over 0..MaxKernelN
MaxKernelN == 7
\* blocking factors numElem in 1..MaxK of the register-blocked kernels
MaxK == 2

-----------------------------------------------------------------------------
(* Integer arithmetic of the host and device code *)

\* C's int division, which truncates toward zero (b > 0)
CDiv(x, b) == IF x >= 0 THEN x \div b ELSE -((-x) \div b)

Min(S) == CHOOSE x \in S : \A y \in S : x <= y
Max(S) == CHOOSE x \in S : \A y \in S : x >= y

-----------------------------------------------------------------------------
(* Backends and entry points *)

Backends == {"SYCL", "HIP", "CUDA"}

Entries == {"scalarCopy_int", "scalarCopy_ll", "vectorCopy_int",
            "vectorCopy_ll", "memcpyFloat"}

ScalarEntries == {"scalarCopy_int", "scalarCopy_ll"}
VectorEntries == {"vectorCopy_int", "vectorCopy_ll"}

\* sizeof(T) of the explicit instances
SizeOf(e) == IF e \in {"scalarCopy_ll", "vectorCopy_ll"} THEN 8 ELSE 4

\* const int vectorLength = 16/sizeof(T)
VectorLength(e) == 16 \div SizeOf(e)

\* the vector instance for the element type of a scalar instance
VectorOf(e) == IF e = "scalarCopy_int" THEN "vectorCopy_int" ELSE "vectorCopy_ll"

ScalarNumBlockCeil(N) == CDiv(N + numthread - 1, numthread)
ScalarNumBlockMod(N) == ((N - 1) % numthread) + 1
\* int numblock = (n - 1)/numthread + 1;
ScalarNumBlock(N) == CDiv(N - 1, numthread) + 1

\* int numblock = (n/vectorLength - 1)/numthread + 1;
VectorNumBlock(N, vl) == CDiv(CDiv(N, vl) - 1, numthread) + 1

\* int numblock = (n/(4*NUM_ELEM) - 1)/numthread + 1;
FloatNumBlock(N) == CDiv(CDiv(N, 4 * NUM_ELEM) - 1, numthread) + 1

\* the group count an entry point computes
NumBlock(e, N) ==
  IF e \in ScalarEntries THEN ScalarNumBlock(N)
  ELSE IF e \in VectorEntries THEN VectorNumBlock(N, VectorLength(e))
  ELSE FloatNumBlock(N)

\* the granularity divisor in the entry point's numblock expression
Granularity(e) ==
  IF e \in ScalarEntries THEN 1
  ELSE IF e \in VectorEntries THEN VectorLength(e)
  ELSE 4 * NUM_ELEM

NoLaunch == [kernel |-> "none", n |-> 0, vl |-> 1, numElem |-> 1,
             gridDim |-> 0, blockDim |-> 0]

\* kernel, kernel arguments and geometry <<< numblock, numthread >>> of a call
EntryLaunch(e, N) ==
  IF e \in ScalarEntries THEN
    [kernel |-> "scalar", n |-> N, vl |-> 1, numElem |-> 1,
     gridDim |-> NumBlock(e, N), blockDim |-> numthread]
  ELSE IF e \in VectorEntries THEN
    [kernel |-> "vector", n |-> N, vl |-> VectorLength(e), numElem |-> 1,
     gridDim |-> NumBlock(e, N), blockDim |-> numthread]
  ELSE
    [kernel |-> "float", n |-> CDiv(N, 4), vl |-> 4, numElem |-> NUM_ELEM,
     gridDim |-> NumBlock(e, N), blockDim |-> numthread]

\* SYCL enqueues and returns; HIP and CUDA read the last error after the launch
HasErrorCheck(b) == b \in {"HIP", "CUDA"}

\* hipCheck / cudaCheck on a status that is not success
GpuCheck(status) == IF status = "success" THEN "returned" ELSE "fatal"

-----------------------------------------------------------------------------
(* Kernels *)

Threads(L) == 0 .. (L.gridDim * L.blockDim - 1)

threadIdx_x(L, t) == t % L.blockDim
blockIdx_x(L, t) == t \div L.blockDim

\* the elements a wide word covers
WordElems(w, vl) == (w * vl) .. (w * vl + vl - 1)

\* the value a register holds before anything is assigned to it
Uninit == <<>>

\* record of the accesses of one transaction and its effect on data_out
Touch(d, rd, wr, out) ==
  [d EXCEPT !.out = out,
            !.reads = @ \cup rd,
            !.dups = @ \cup (wr \cap d.writes),
            !.writes = @ \cup wr]

(* scalarCopyKernel *)

ScalarStartTid(L, t) == threadIdx_x(L, t)
\* int i = threadIdx_x + blockIdx_x*blockDim_x
ScalarStart(L, t) == threadIdx_x(L, t) + blockIdx_x(L, t) * L.blockDim

ScalarStrideBlock(L, t) == L.blockDim
\* i += blockDim_x*gridDim_x
ScalarStride(L, t) == L.blockDim * L.gridDim

ScalarBodyAccum(out, in, i) == [out EXCEPT ![i] = out[i] + in[i]]
\* data_out[i] = data_in[i];
ScalarBody(out, in, i) == [out EXCEPT ![i] = in[i]]

ScalarStep(L, in, d, t) ==
  LET i == d.idx[t]
      i2 == i + ScalarStride(L, t)
  IN [Touch(d, {i}, {i}, ScalarBody(d.out, in, i))
        EXCEPT !.idx[t] = i2,
               !.pc[t] = IF i2 < L.n THEN "loop" ELSE "done"]

(* vectorCopyKernel *)

\* int idx = threadIdx_x + blockIdx_x * blockDim_x;
VectorIdx(L, t) == threadIdx_x(L, t) + blockIdx_x(L, t) * L.blockDim

VectorStride(L, t) == L.blockDim * L.gridDim

VectorBodyNoCast(out, in, w, vl) == [out EXCEPT ![w] = in[w]]
\* reinterpret_cast<int4_t *>(data_out)[i] = reinterpret_cast<int4_t *>(data_in)[i];
VectorBody(out, in, w, vl) ==
  [k \in DOMAIN out |-> IF k \in WordElems(w, vl) THEN in[k] ELSE out[k]]

RemStartPastEnd(L, t) == VectorIdx(L, t) + L.n
\* int i = idx + (n/vectorLength)*vectorLength
RemStart(L, t) == VectorIdx(L, t) + CDiv(L.n, L.vl) * L.vl

RemStrideTid(L, t) == threadIdx_x(L, t)
\* i += blockDim_x*gridDim_x + threadIdx_x
RemStride(L, t) == L.blockDim * L.gridDim + threadIdx_x(L, t)

EnterRemOffByOne(L, t) ==
  LET i == RemStart(L, t)
  IN [pc |-> IF i <= L.n THEN "rem" ELSE "done", i |-> i]
\* a thread leaving the loop over the vector elements
EnterRem(L, t) ==
  LET i == RemStart(L, t)
  IN [pc |-> IF i < L.n THEN "rem" ELSE "done", i |-> i]

VecStep(L, in, d, t) ==
  LET i == d.idx[t]
      i2 == i + VectorStride(L, t)
      nxt == IF i2 < CDiv(L.n, L.vl) THEN [pc |-> "vec", i |-> i2]
             ELSE EnterRem(L, t)
      W == WordElems(i, L.vl)
  IN [Touch(d, W, W, VectorBody(d.out, in, i, L.vl))
        EXCEPT !.idx[t] = nxt.i, !.pc[t] = nxt.pc]

RemStep(L, in, d, t) ==
  LET i == d.idx[t]
      i2 == i + RemStride(L, t)
  IN [Touch(d, {i}, {i}, ScalarBody(d.out, in, i))
        EXCEPT !.idx[t] = i2,
               !.pc[t] = IF i2 < L.n THEN "rem" ELSE "done"]

(* memcpyFloatKernel<numElem> *)

\* int index = threadIdx_x + numElem*blockIdx_x*blockDim_x;
FloatIndex(L, t) == threadIdx_x(L, t) + L.numElem * blockIdx_x(L, t) * L.blockDim

\* index + i*blockDim_x
FloatSlot(L, t, s) == FloatIndex(L, t) + s * L.blockDim

\* if (index + i*blockDim_x < n)
FloatGuard(L, t, s) == FloatSlot(L, t, s) < L.n

Slots(L) == 0 .. (L.numElem - 1)

FloatLoadInterleaved(L, in, d, t) ==
  LET S == {s \in Slots(L) : FloatGuard(L, t, s)}
      W == UNION {WordElems(FloatSlot(L, t, s), L.vl) : s \in S}
      out == [k \in DOMAIN d.out |-> IF k \in W THEN in[k] ELSE d.out[k]]
  IN [Touch(d, W, W, out) EXCEPT !.pc[t] = "done"]
\* a[i] = data_in[index + i*blockDim_x], for every slot that passes its guard
FloatLoad(L, in, d, t) ==
  LET S == {s \in Slots(L) : FloatGuard(L, t, s)}
      R == UNION {WordElems(FloatSlot(L, t, s), L.vl) : s \in S}
      regs == [s \in Slots(L) |->
                 IF s \in S
                 THEN [k \in 0 .. (L.vl - 1) |-> in[FloatSlot(L, t, s) * L.vl + k]]
                 ELSE d.a[t][s]]
  IN [Touch(d, R, {}, d.out) EXCEPT !.a[t] = regs, !.pc[t] = "store"]

\* data_out[index + i*blockDim_x] = a[i], for every slot that passes its guard
FloatStore(L, in, d, t) ==
  LET S == {s \in Slots(L) : FloatGuard(L, t, s)}
      W == UNION {WordElems(FloatSlot(L, t, s), L.vl) : s \in S}
      slotOf(k) == Max({s \in S : k \in WordElems(FloatSlot(L, t, s), L.vl)})
      out == [k \in DOMAIN d.out |->
                IF k \in W THEN d.a[t][slotOf(k)][k % L.vl] ELSE d.out[k]]
  IN [Touch(d, {}, W, out)
        EXCEPT !.a[t] = [s \in Slots(L) |-> Uninit], !.pc[t] = "done"]

(* memcpyFloatLoopKernel<numElem> *)

\* int index = threadIdx_x + blockIdx_x*numElem*blockDim_x
LoopStart(L, t) == threadIdx_x(L, t) + blockIdx_x(L, t) * L.numElem * L.blockDim

LoopStrideNoElem(L, t) == L.gridDim * L.blockDim
\* index += numElem*gridDim_x*blockDim_x
LoopStride(L, t) == L.numElem * L.gridDim * L.blockDim

\* index + i*blockDim_x
LoopSlot(L, index, s) == index + s * L.blockDim

\* if (index + i*blockDim_x < n)
LoopGuard(L, index, s) == LoopSlot(L, index, s) < L.n

\* the load loop of one outer iteration
LoopLoad(L, in, d, t) ==
  LET index == d.idx[t]
      S == {s \in Slots(L) : LoopGuard(L, index, s)}
      R == UNION {WordElems(LoopSlot(L, index, s), L.vl) : s \in S}
      regs == [s \in Slots(L) |->
                 IF s \in S
                 THEN [k \in 0 .. (L.vl - 1) |-> in[LoopSlot(L, index, s) * L.vl + k]]
                 ELSE d.a[t][s]]
  IN [Touch(d, R, {}, d.out) EXCEPT !.a[t] = regs, !.pc[t] = "lstore"]

\* the store loop of one outer iteration, and the step to the next one;
\* a[numElem] is declared in the loop body and ends with the iteration
LoopStore(L, in, d, t) ==
  LET index == d.idx[t]
      S == {s \in Slots(L) : LoopGuard(L, index, s)}
      W == UNION {WordElems(LoopSlot(L, index, s), L.vl) : s \in S}
      slotOf(k) == Max({s \in S : k \in WordElems(LoopSlot(L, index, s), L.vl)})
      out == [k \in DOMAIN d.out |->
                IF k \in W THEN d.a[t][slotOf(k)][k % L.vl] ELSE d.out[k]]
      i2 == index + LoopStride(L, t)
  IN [Touch(d, {}, W, out)
        EXCEPT !.a[t] = [s \in Slots(L) |-> Uninit],
               !.idx[t] = i2,
               !.pc[t] = IF i2 < L.n THEN "lload" ELSE "done"]

(* a thread as the launch creates it, up to its first transaction *)
ThreadInit(L, t) ==
  IF L.kernel = "scalar" THEN
    [pc |-> IF ScalarStart(L, t) < L.n THEN "loop" ELSE "done",
     i |-> ScalarStart(L, t)]
  ELSE IF L.kernel = "vector" THEN
    IF VectorIdx(L, t) < CDiv(L.n, L.vl)
    THEN [pc |-> "vec", i |-> VectorIdx(L, t)]
    ELSE EnterRem(L, t)
  ELSE IF L.kernel = "floatLoop" THEN
    [pc |-> IF LoopStart(L, t) < L.n THEN "lload" ELSE "done",
     i |-> LoopStart(L, t)]
  ELSE
    [pc |-> IF \E s \in Slots(L) : FloatGuard(L, t, s) THEN "load" ELSE "done",
     i |-> FloatIndex(L, t)]

\* the next transaction of thread t
ThreadStep(L, in, d, t) ==
  CASE d.pc[t] = "loop" -> ScalarStep(L, in, d, t)
    [] d.pc[t] = "vec" -> VecStep(L, in, d, t)
    [] d.pc[t] = "rem" -> RemStep(L, in, d, t)
    [] d.pc[t] = "load" -> FloatLoad(L, in, d, t)
    [] d.pc[t] = "store" -> FloatStore(L, in, d, t)
    [] d.pc[t] = "lload" -> LoopLoad(L, in, d, t)
    [] d.pc[t] = "lstore" -> LoopStore(L, in, d, t)

\* the device state of a kernel that was just launched on destination out
LaunchState(L, out) ==
  [out |-> out,
   pc |-> [t \in Threads(L) |-> ThreadInit(L, t).pc],
   idx |-> [t \in Threads(L) |-> ThreadInit(L, t).i],
   a |-> [t \in Threads(L) |-> [s \in Slots(L) |-> Uninit]],
   reads |-> {}, writes |-> {}, dups |-> {}]

\* the device state when no kernel was enqueued
NoKernel(out) == LaunchState(NoLaunch, out)

PendingOf(d) == {t \in DOMAIN d.pc : d.pc[t] # "done"}

\* the kernel run one thread after the other, by rank
RECURSIVE SerialRun(_, _, _)
SerialRun(L, in, d) ==
  IF PendingOf(d) = {} THEN d
  ELSE SerialRun(L, in, ThreadStep(L, in, d, Min(PendingOf(d))))

-----------------------------------------------------------------------------
(* State *)

Dev == [out |-> data_out, pc |-> pc, idx |-> idx, a |-> a,
        reads |-> reads, writes |-> writes, dups |-> dups]

SetDev(d) ==
  /\ data_out' = d.out
  /\ pc' = d.pc
  /\ idx' = d.idx
  /\ a' = d.a
  /\ reads' = d.reads
  /\ writes' = d.writes
  /\ dups' = d.dups

\* buffers of the copy request: distinct values in the source, and a
\* destination that differs from the source everywhere
SrcBuffer(len) == [i \in 0 .. (len - 1) |-> i + 1]
DstBuffer(len) == [i \in 0 .. (len - 1) |-> 0 - (i + 1)]

\* element counts tried with an entry point: the small ones, and those at the
\* edge of one group's worth of wide words
EdgeNs(e) ==
  IF e = "memcpyFloat"
  THEN {4 * numthread, 4 * (NUM_ELEM * numthread + 1)}
  ELSE {numthread * Granularity(e) + 1}

Ns(e) == (0 .. MaxN) \cup EdgeNs(e)

Pending == PendingOf(Dev)

Launched == launch.kernel # "none" /\ lastError = "success"

Finished == Launched /\ Pending = {}

\* the threads that may take the next step
Runnable ==
  IF Cardinality(Pending) <= FreeOrder THEN Pending
  ELSE {Min(Pending), Max(Pending)}

InitRest ==
  /\ host = "idle"
  /\ lastError = "success"
  /\ errChecked = FALSE
  /\ entry = "none"
  /\ n = 0
  /\ launch = NoLaunch
  /\ data_in = SrcBuffer(0)
  /\ data_out = DstBuffer(0)
  /\ pre_out = DstBuffer(0)
  /\ first_out = DstBuffer(0)
  /\ mode = "first"
  /\ pc = <<>>
  /\ idx = <<>>
  /\ a = <<>>
  /\ reads = {}
  /\ writes = {}
  /\ dups = {}

Init == backend = "CUDA" /\ InitRest

HostInit == backend \in Backends /\ InitRest

(* An entry point: computes the geometry, enqueues the kernel, and in the  *)
(* HIP and CUDA builds checks the last error.  ok is whether the device    *)
(* accepted the launch.                                                    *)
Dispatch(e, N, out, ok) ==
  /\ entry' = e
  /\ n' = N
  /\ launch' = EntryLaunch(e, N)
  /\ lastError' = IF ok THEN "success" ELSE "error"
  /\ errChecked' = HasErrorCheck(backend)
  /\ host' = IF HasErrorCheck(backend)
             THEN GpuCheck(IF ok THEN "success" ELSE "error")
             ELSE "returned"
  /\ pre_out' = out
  /\ LET d == IF ok THEN LaunchState(EntryLaunch(e, N), out) ELSE NoKernel(out)
     IN SetDev(d)
  /\ UNCHANGED backend

\* the host's first call, on freshly filled buffers
FirstCall(e, N, ok) ==
  /\ host = "idle"
  /\ entry = "none"
  /\ data_in' = SrcBuffer(N + Pad)
  /\ first_out' = DstBuffer(N + Pad)
  /\ mode' = "first"
  /\ Dispatch(e, N, DstBuffer(N + Pad), ok)

\* one transaction of one thread of the running kernel
Step(t) ==
  /\ Launched
  /\ t \in Runnable
  /\ LET d == ThreadStep(launch, data_in, Dev, t) IN SetDev(d)
  /\ UNCHANGED <<backend, host, lastError, errChecked, entry, n, launch,
                 data_in, pre_out, first_out, mode>>

\* the same call made again once the stream has completed the first
Rerun ==
  /\ Finished
  /\ mode = "first"
  /\ first_out' = data_out
  /\ mode' = "again"
  /\ Dispatch(entry, n, data_out, TRUE)
  /\ UNCHANGED data_in

\* after a scalar copy has completed: the destination is restored and the
\* vector entry point for the same element type copies the same request
CompareRun ==
  /\ Finished
  /\ mode = "first"
  /\ entry \in ScalarEntries
  /\ first_out' = data_out
  /\ mode' = "compare"
  /\ Dispatch(VectorOf(entry), n, pre_out, TRUE)
  /\ UNCHANGED data_in

Next ==
  \/ \E e \in Entries : \E N \in Ns(e) : \E ok \in BOOLEAN : FirstCall(e, N, ok)
  \/ \E t \in Runnable : Step(t)
  \/ Rerun
  \/ CompareRun

Spec == Init /\ [][Next]_vars

HostNext ==
  \E e \in Entries : \E N \in 0 .. MaxHostN : \E ok \in BOOLEAN : FirstCall(e, N, ok)

SpecHost == HostInit /\ [][HostNext]_vars

(* The kernels launched directly, <<< gd, bd >>>, on any geometry *)

FloatKernels == {"float", "floatLoop"}

\* the kernels and their template arguments: the vector length of T, numElem
KernelKinds ==
  {[kernel |-> "scalar", vl |-> 1, numElem |-> 1]}
  \cup {[kernel |-> "vector", vl |-> VectorLength(e), numElem |-> 1] :
          e \in VectorEntries}
  \cup {[kernel |-> k, vl |-> 4, numElem |-> K] :
          k \in FloatKernels, K \in 1 .. MaxK}

\* the elements below the count n of a launch (n counts float4_t in the
\* register-blocked kernels, elements in the others)
LaunchElems(L) ==
  IF L.kernel \in FloatKernels THEN 0 .. (L.n * L.vl - 1) ELSE 0 .. (L.n - 1)

KernelLaunch(kind, N, gd, bd) ==
  LET L == [kernel |-> kind.kernel, n |-> N, vl |-> kind.vl,
            numElem |-> kind.numElem, gridDim |-> gd, blockDim |-> bd]
      len == Cardinality(LaunchElems(L)) + Pad
  IN /\ host = "idle"
     /\ launch = NoLaunch
     /\ launch' = L
     /\ n' = N
     /\ data_in' = SrcBuffer(len)
     /\ pre_out' = DstBuffer(len)
     /\ first_out' = DstBuffer(len)
     /\ LET d == LaunchState(L, DstBuffer(len)) IN SetDev(d)
     /\ UNCHANGED <<backend, host, lastError, errChecked, entry, mode>>

KernelNext ==
  \/ \E kind \in KernelKinds : \E N \in 0 .. MaxKernelN :
       \E gd \in 1 .. MaxGrid : \E bd \in 1 .. MaxBlock :
         KernelLaunch(kind, N, gd, bd)
  \/ \E t \in Runnable : Step(t)

SpecKernel == Init /\ [][KernelNext]_vars

\* a device that was given a kernel keeps running its threads
SpecKernelFair == SpecKernel /\ WF_vars(\E t \in Runnable : Step(t))

-----------------------------------------------------------------------------
(* Properties *)

\* the first element past the last full wide word
LastFull(N, vl) == CDiv(N, vl) * vl

\* the elements of the wide words below the kernel's count
KernelElems == 0 .. (launch.n * launch.vl - 1)

\* C1: once all threads of an entry point's kernel have finished,
\* data_out[i] = data_in[i] for every i < n, and every destination element
\* at or beyond n holds its pre-call value.
C1_CopyComplete ==
  Finished =>
    \A i \in DOMAIN data_out :
      data_out[i] = IF i < n THEN data_in[i] ELSE pre_out[i]

\* C2: when memcpyFloat launches memcpyFloatKernel<2> on M = n/4 wide words
\* and M is no multiple of numElem*numthread, no element of a wide word at or
\* beyond M is read or written, and every wide word below M is loaded from
\* data_in and stored to data_out.
C2_BlockedBoundary ==
  (Finished /\ entry = "memcpyFloat"
     /\ launch.n % (launch.numElem * launch.blockDim) # 0) =>
    /\ reads \subseteq KernelElems
    /\ writes \subseteq KernelElems
    /\ KernelElems \subseteq reads
    /\ KernelElems \subseteq writes
    /\ \A k \in KernelElems : data_out[k] = data_in[k]

\* C3: after vectorCopy's kernel has finished on an n that is no multiple of
\* vectorLength, every straggler i with (n/vectorLength)*vectorLength <= i < n
\* has been copied.
C3_Stragglers ==
  (Finished /\ entry \in VectorEntries /\ n % VectorLength(entry) # 0) =>
    \A i \in LastFull(n, VectorLength(entry)) .. (n - 1) :
      i \in writes /\ data_out[i] = data_in[i]

\* C3 witness: a vector copy has finished whose wide words fill a whole group
\* and which has stragglers.
C3_Witness ==
  /\ Finished
  /\ entry \in VectorEntries
  /\ n % VectorLength(entry) # 0
  /\ CDiv(n, VectorLength(entry)) >= numthread

\* C4: the group count an entry point computes is the least group count g
\* with g * numthread * G >= n, G being the divisor of its numblock expression.
C4_MinimalCover ==
  entry # "none" =>
    /\ launch.gridDim * numthread * Granularity(entry) >= n
    /\ \A g \in 1 .. (launch.gridDim - 1) :
         g * numthread * Granularity(entry) < n

\* C5: for n = 0 every entry point computes one group, no thread of the
\* launch performs a copy, and the destination is left as it was.
C5_ZeroCount ==
  (entry # "none" /\ n = 0) =>
    /\ launch.gridDim = 1
    /\ reads = {} /\ writes = {}
    /\ data_out = pre_out
    /\ lastError = "success" =>
         /\ DOMAIN pc = 0 .. (numthread - 1)
         /\ \A t \in DOMAIN pc : pc[t] = "done"

\* C5 witness: a launch with n = 0 is on the device.
C5_Witness == Launched /\ n = 0 /\ launch.gridDim * launch.blockDim = numthread

\* C6: within one launch no destination element is written twice, by one
\* thread or by two, and whatever order the threads ran in, the destination
\* ends as it does when they run one after the other.
C6_SingleWriter ==
  /\ dups = {}
  /\ Finished =>
       data_out = SerialRun(launch, data_in, LaunchState(launch, pre_out)).out

\* C6 witness: a launch of more than one group has finished and has written.
C6_Witness == Finished /\ launch.gridDim > 1 /\ writes # {}

\* C7: in every backend, every entry point checks the last error after
\* enqueuing its kernel, and a failed enqueue ends in a fatal error.
C7_ErrorChecked ==
  entry # "none" =>
    /\ errChecked
    /\ lastError = "error" => host = "fatal"

\* C8: for a fixed entry point (divisor 1, 2, 4 or 8) the group count does
\* not decrease with n: every N1 <= n gets at most the groups n gets.
C8_Monotone ==
  entry # "none" =>
    \A N1 \in 0 .. n : NumBlock(entry, N1) <= launch.gridDim

\* C8 witness: a call whose count needs more than one group.
C8_Witness == entry # "none" /\ launch.gridDim > 1 /\ n > numthread

\* C9: on the same source and the same initial destination, vectorCopy<int>
\* leaves the destination that scalarCopy<int> left.
C9_ScalarVectorSame ==
  (Finished /\ mode = "compare" /\ entry = "vectorCopy_int") =>
    data_out = first_out

\* C9 witness: vectorCopy<int> has finished after scalarCopy<int> on a count
\* with a full wide word and stragglers.
C9_Witness ==
  /\ Finished
  /\ mode = "compare"
  /\ entry = "vectorCopy_int"
  /\ n > 4
  /\ n % 4 # 0
  /\ first_out # pre_out

\* C10: the same copy run a second time leaves the whole destination as the
\* first run left it.
C10_Idempotent ==
  (Finished /\ mode = "again") => data_out = first_out

\* C10 witness: a second run that wrote has finished.
C10_Witness == Finished /\ mode = "again" /\ writes # {} /\ n > 0

\* memcpyFloatKernel on the least geometry of the same block size that
\* covers the count: gridDim * numElem * blockDim >= n
CoverLaunch(L) ==
  [L EXCEPT !.kernel = "float",
            !.gridDim = CDiv(L.n - 1, L.numElem * L.blockDim) + 1]

\* C11: on every geometry the threads of scalarCopyKernel together visit
\* every index below n exactly once and no other index.
C11_ScalarVisitsOnce ==
  launch.kernel = "scalar" =>
    /\ dups = {}
    /\ reads \subseteq LaunchElems(launch)
    /\ writes \subseteq LaunchElems(launch)
    /\ Finished => /\ reads = LaunchElems(launch)
                   /\ writes = LaunchElems(launch)
                   /\ \A i \in LaunchElems(launch) : data_out[i] = data_in[i]

\* C11 witness: scalarCopyKernel has finished on two or more groups with
\* fewer threads than elements.
C11_Witness ==
  /\ Finished
  /\ launch.kernel = "scalar"
  /\ launch.gridDim > 1
  /\ launch.gridDim * launch.blockDim < launch.n

\* C12: in the remainder loop of vectorCopyKernel every thread advances its
\* index by blockDim * gridDim, the stride of the loop over the vector
\* elements.
C12_RemStride ==
  [][\A t \in DOMAIN pc :
       (pc[t] = "rem" /\ launch' = launch /\ idx'[t] # idx[t]) =>
         idx'[t] = idx[t] + launch.blockDim * launch.gridDim]_vars

\* C13: on every geometry and for every numElem, memcpyFloatLoopKernel
\* copies every wide word below n exactly once and touches none at or
\* beyond n, and so ends with the destination of memcpyFloatKernel launched
\* on enough groups to cover n.
C13_LoopVariantSame ==
  launch.kernel = "floatLoop" =>
    /\ dups = {}
    /\ reads \subseteq LaunchElems(launch)
    /\ writes \subseteq LaunchElems(launch)
    /\ Finished =>
         /\ reads = LaunchElems(launch)
         /\ writes = LaunchElems(launch)
         /\ data_out = SerialRun(CoverLaunch(launch), data_in,
                                 LaunchState(CoverLaunch(launch), pre_out)).out

\* C13 witness: memcpyFloatLoopKernel has finished after threads went round
\* their outer loop more than once, with numElem > 1.
C13_Witness ==
  /\ Finished
  /\ launch.kernel = "floatLoop"
  /\ launch.numElem > 1
  /\ launch.gridDim * launch.numElem * launch.blockDim < launch.n

\* C14: in memcpyFloatKernel and in each outer iteration of
\* memcpyFloatLoopKernel, a thread's load pass stores nothing and loads
\* exactly the slots that pass the bounds check, and its store pass comes
\* after it and stores exactly the slots that were loaded.
C14_LoadsBeforeStores ==
  [][(launch' = launch /\ launch.kernel \in FloatKernels) =>
       \A t \in DOMAIN pc :
         pc'[t] # pc[t] =>
           IF pc[t] \in {"load", "lload"}
           THEN /\ pc'[t] \in {"store", "lstore"}
                /\ writes' = writes
                /\ data_out' = data_out
                /\ \A s \in Slots(launch) :
                     a'[t][s] # Uninit <=> LoopGuard(launch, idx[t], s)
           ELSE /\ pc[t] \in {"store", "lstore"}
                /\ \A s \in Slots(launch) :
                     LoopGuard(launch, idx[t], s) => a[t][s] # Uninit
                /\ writes' \ writes =
                     UNION {WordElems(LoopSlot(launch, idx[t], s), launch.vl) :
                              s \in {x \in Slots(launch) : a[t][x] # Uninit}}]_vars

\* C14 witness: a thread stands between its load pass and its store pass
\* with one slot loaded and one slot out of bounds.
C14_Witness ==
  /\ launch.kernel \in FloatKernels
  /\ \E t \in DOMAIN pc :
       /\ pc[t] \in {"store", "lstore"}
       /\ \E s \in Slots(launch) : a[t][s] # Uninit
       /\ \E s \in Slots(launch) : a[t][s] = Uninit

\* C15: on every geometry no thread of scalarCopyKernel, vectorCopyKernel or
\* memcpyFloatKernel reads data_in or writes data_out at an element outside
\* those below n, and data_in stays as the caller filled it.
C15_InBounds ==
  launch.kernel \in {"scalar", "vector", "float"} =>
    /\ reads \subseteq LaunchElems(launch)
    /\ writes \subseteq LaunchElems(launch)
    /\ \A i \in DOMAIN data_out \ LaunchElems(launch) : data_out[i] = pre_out[i]
    /\ data_in = SrcBuffer(Cardinality(LaunchElems(launch)) + Pad)

\* C15 witness: vectorCopyKernel has finished on a count with stragglers,
\* having written every element below n.
C15_Witness ==
  /\ Finished
  /\ launch.kernel = "vector"
  /\ launch.n % launch.vl # 0
  /\ launch.n > launch.vl
  /\ writes = LaunchElems(launch)

\* C16: on every geometry every thread of scalarCopyKernel, vectorCopyKernel
\* and memcpyFloatLoopKernel eventually finishes, and every loop index only
\* ever increases.
C16_Terminates ==
  /\ (Launched /\ launch.kernel \in {"scalar", "vector", "floatLoop"})
       ~> Finished
  /\ [][\A t \in DOMAIN pc :
          (launch' = launch /\ idx'[t] # idx[t] /\ pc'[t] = pc[t]) =>
            idx'[t] > idx[t]]_vars

\* C16 witness: vectorCopyKernel has finished after a thread with
\* threadIdx_x > 0 went round the remainder loop.
C16_Witness ==
  /\ Finished
  /\ launch.kernel = "vector"
  /\ \E t \in DOMAIN pc :
       /\ threadIdx_x(launch, t) > 0
       /\ idx[t] >= RemStart(launch, t) + RemStride(launch, t)
       /\ RemStart(launch, t) < launch.n

====
